---- MODULE Spec2Model ----
(***************************************************************************)
(* Lexicon-based sentiment scorer (10_sentiment_final.py).                 *)
(*                                                                         *)
(* Strings are sequences of one-character strings, so that split, lower,   *)
(* strip and isupper are computed character by character.  Floating-point  *)
(* numbers are fixed-point integers in units of 1/One: every value the     *)
(* scorer produces from integer weights is a multiple of 1/32, so the      *)
(* arithmetic below is exact, as it is in binary floating point.           *)
(***************************************************************************)
EXTENDS Integers, Sequences, FiniteSets

VARIABLES
    sentiment_words,  \* the lexicon dict: word -> weight
    stops,            \* the stop-word collection imported from stopwords
    mods,             \* intensifiers
    inverters,        \* negators
    phase,            \* position of the script: "load", "custom", "score", "hist", "done"
    err,              \* uncaught exception that ended the script, or "none"
    records,          \* lines read so far from the open lexicon file
    last_op,          \* last add_word / remove_word call and whether it warned
    text,             \* the review text being scored
    total,            \* value of analyse's local score at line 81, or NoValue
    scores,           \* the list scores (line 100)
    buckets           \* the list buckets (line 122), or NoValue before line 122

vars == <<sentiment_words, stops, mods, inverters, phase, err, records,
          last_op, text, total, scores, buckets>>

\* ------------------------------------------------------------------ bounds
MaxTokens == 3
MaxCalls == 2
MaxRecords == 2
MaxScores == 3

\* ---------------------------------------------------------- number model
\* The float 1.0 in fixed point.
One == 32

NoValue == "None"

\* ------------------------------------------------------ Python built-ins
UpperCase == <<"A","B","C","D","E","F","G","H","I","J","K","L","M",
               "N","O","P","Q","R","S","T","U","V","W","X","Y","Z">>
LowerCase == <<"a","b","c","d","e","f","g","h","i","j","k","l","m",
               "n","o","p","q","r","s","t","u","v","w","x","y","z">>

IsUpperChar(c) == \E i \in 1..Len(UpperCase) : UpperCase[i] = c
IsLowerChar(c) == \E i \in 1..Len(LowerCase) : LowerCase[i] = c

lower_char(c) ==
    IF IsUpperChar(c)
    THEN LowerCase[CHOOSE i \in 1..Len(UpperCase) : UpperCase[i] = c]
    ELSE c

\* str.lower()
RECURSIVE lower(_)
lower(s) == IF s = <<>> THEN <<>> ELSE <<lower_char(Head(s))>> \o lower(Tail(s))

\* str.isupper(): at least one cased character and no lowercase character
isupper(s) ==
    /\ \E i \in 1..Len(s) : IsUpperChar(s[i])
    /\ \A i \in 1..Len(s) : ~IsLowerChar(s[i])

\* A character that has no string literal here is held as the name of its
\* code point: "U+0060" is the grave accent, "U+000B" the vertical tab.
\* Texts are made of ASCII letters, punctuation and whitespace characters.

\* string.punctuation, all 32 characters
punctuation ==
    {"!", "\"", "#", "$", "%", "&", "'", "(", ")", "*", "+", ",", "-", ".",
     "/", ":", ";", "<", "=", ">", "?", "@", "[", "\\", "]", "^", "_", "U+0060",
     "{", "|", "}", "~"}

\* the characters str.split() treats as separators: those with str.isspace()
whitespace ==
    {"\t", "\n", "U+000B", "\f", "\r", "U+001C", "U+001D", "U+001E", "U+001F",
     " ", "U+0085", "U+00A0", "U+1680", "U+2000", "U+2001", "U+2002", "U+2003",
     "U+2004", "U+2005", "U+2006", "U+2007", "U+2008", "U+2009", "U+200A",
     "U+2028", "U+2029", "U+202F", "U+205F", "U+3000"}

RECURSIVE lstrip(_, _)
lstrip(s, chars) ==
    IF s # <<>> /\ Head(s) \in chars THEN lstrip(Tail(s), chars) ELSE s

RECURSIVE rstrip(_, _)
rstrip(s, chars) ==
    IF s # <<>> /\ s[Len(s)] \in chars
    THEN rstrip(SubSeq(s, 1, Len(s) - 1), chars)
    ELSE s

\* str.strip(chars)
strip(s, chars) == rstrip(lstrip(s, chars), chars)

RECURSIVE split_from(_, _, _)
split_from(s, i, cur) ==
    IF i > Len(s)
    THEN (IF cur = <<>> THEN <<>> ELSE <<cur>>)
    ELSE IF s[i] \in whitespace
         THEN (IF cur = <<>> THEN <<>> ELSE <<cur>>) \o split_from(s, i + 1, <<>>)
         ELSE split_from(s, i + 1, Append(cur, s[i]))

\* str.split(): split on runs of whitespace, no empty strings
split(s) == split_from(s, 1, <<>>)

\* seq[i] with a Python index: 0-based, negative indices count from the end
in_range(seq, i) == -Len(seq) <= i /\ i < Len(seq)
item(seq, i) == IF i >= 0 THEN seq[i + 1] ELSE seq[Len(seq) + i + 1]

\* dict operations
dict_set(d, k, v) == [x \in DOMAIN d \cup {k} |-> IF x = k THEN v ELSE d[x]]
\* del d[k]: the dict left behind, and KeyError when k is absent
dict_del(d, k) ==
    IF k \in DOMAIN d
    THEN [err |-> "none", d |-> [x \in DOMAIN d \ {k} |-> d[x]]]
    ELSE [err |-> "KeyError", d |-> d]
EmptyDict == [x \in {} |-> 0]

\* w.lower().strip(punctuation)
norm(w) == strip(lower(w), punctuation)

\* ------------------------------------------------------------- the words
W_good == <<"g","o","o","d">>
W_bad == <<"b","a","d">>
W_buy == <<"b","u","y">>
W_not == <<"n","o","t">>
W_isnt == <<"i","s","n","'","t">>
W_really == <<"r","e","a","l","l","y">>
W_incredibly == <<"i","n","c","r","e","d","i","b","l","y">>
W_very == <<"v","e","r","y">>
W_just == <<"j","u","s","t">>
W_super == <<"s","u","p","e","r">>
W_the == <<"t","h","e">>
W_i == <<"i">>
W_it == <<"i","t">>
W_did == <<"d","i","d">>

\* ------------------------------------------------- lexicon load (8-22)
\* One line of subjclues.txt after line.split(" "): six key=value fields,
\* each held as the pair <<key, value>> that field.split("=") yields.
SubjLine(type, word, polarity) ==
    << <<"type", type>>, <<"len", "1">>, <<"word1", word>>,
       <<"pos1", "adj">>, <<"stemmed1", "n">>, <<"priorpolarity", polarity>> >>

\* pairs[i].split("=")[1]
field_value(pairs, i) == item(item(pairs, i), 1)

\* Lines 13-20: the weight computed from one line.
line_weight(pairs) ==
    LET polarity_type == field_value(pairs, 0)
        strength == field_value(pairs, -1)
        mod0 == 1
        mod1 == IF strength = "negative" THEN mod0 * (-1) ELSE mod0
    IN  IF polarity_type = "strongsubj" THEN mod1 * 2 ELSE mod1

\* Variant of load_line that keeps the first weight of a repeated word.
load_line_first_wins(sw, pairs) ==
    IF field_value(pairs, 2) \in DOMAIN sw
    THEN sw
    ELSE dict_set(sw, field_value(pairs, 2), line_weight(pairs))

\* Lines 11-21: the body of the load loop.
load_line(sw, pairs) == dict_set(sw, field_value(pairs, 2), line_weight(pairs))

RECURSIVE load_lines(_, _)
load_lines(sw, lines) ==
    IF lines = <<>> THEN sw ELSE load_lines(load_line(sw, Head(lines)), Tail(lines))

\* ------------------------------------------- customisation (lines 25-43)
\* Variant of add_word that overwrites an existing entry.
add_word_overwrite(sw, word, weight) ==
    [sw |-> dict_set(sw, word, weight), warned |-> word \in DOMAIN sw,
     err |-> "none"]

\* add_word and remove_word return the dict they leave behind, whether they
\* printed the warning, and the exception they raised or "none".
add_word(sw, word, weight) ==
    IF word \notin DOMAIN sw
    THEN [sw |-> dict_set(sw, word, weight), warned |-> FALSE, err |-> "none"]
    ELSE [sw |-> sw, warned |-> TRUE, err |-> "none"]

\* Variant of remove_word with the membership test inverted.
remove_word_inverted(sw, word) ==
    IF word \notin DOMAIN sw
    THEN LET r == dict_del(sw, word)
         IN  [sw |-> r.d, warned |-> FALSE, err |-> r.err]
    ELSE [sw |-> sw, warned |-> TRUE, err |-> "none"]

remove_word(sw, word) ==
    IF word \in DOMAIN sw
    THEN LET r == dict_del(sw, word)
         IN  [sw |-> r.d, warned |-> FALSE, err |-> r.err]
    ELSE [sw |-> sw, warned |-> TRUE, err |-> "none"]

\* Lines 38-43, the script's own customisation calls.
customise(sw) ==
    LET a == add_word(sw, W_buy, 1).sw
        b == remove_word(a, W_really).sw
        c == remove_word(b, W_incredibly).sw
        d == remove_word(c, W_very).sw
        e == remove_word(d, W_just).sw
    IN  remove_word(e, W_super).sw

\* Lines 45-46.
ModsList == {W_really, W_incredibly, W_very, W_super}
InvertersList == {W_not, W_isnt}

\* --------------------------------------------------- analyse (lines 48-91)
\* Line 57: drop the words whose normalised form is a stop word.
filter_stops(words, st) ==
    LET keep(w) == norm(w) \notin st IN SelectSeq(words, keep)

\* Variant of word_mod that tests the word itself, not its predecessor.
word_mod_self(words, pos, m, inv) ==
    LET mod0 == One
        mod1 == IF isupper(item(words, pos)) THEN mod0 + One \div 2 ELSE mod0
    IN  IF pos # 0
        THEN LET prev == norm(item(words, pos))
             IN  IF prev \in m THEN mod1 + One \div 4
                 ELSE IF prev \in inv THEN mod1 * (-1)
                 ELSE mod1
        ELSE mod1

\* Variant of word_mod without the pos != 0 guard: words[-1] is the last word.
word_mod_unguarded(words, pos, m, inv) ==
    LET mod0 == One
        mod1 == IF isupper(item(words, pos)) THEN mod0 + One \div 2 ELSE mod0
        prev == norm(item(words, pos - 1))
    IN  IF prev \in m THEN mod1 + One \div 4
        ELSE IF prev \in inv THEN mod1 * (-1)
        ELSE mod1

\* Lines 63-76: the multiplier of the word at 0-based position pos.
word_mod(words, pos, m, inv) ==
    LET mod0 == One
        mod1 == IF isupper(item(words, pos)) THEN mod0 + One \div 2 ELSE mod0
    IN  IF pos # 0
        THEN LET prev == norm(item(words, pos - 1))
             IN  IF prev \in m THEN mod1 + One \div 4
                 ELSE IF prev \in inv THEN mod1 * (-1)
                 ELSE mod1
        ELSE mod1

\* Variant of loop_body that scales the stored weight in place.
loop_body_in_place(words, pos, st, m, inv) ==
    LET mod == word_mod(words, pos, m, inv)
        word == norm(item(words, pos))
    IN  IF word \in DOMAIN st.sw
        THEN [score |-> st.score + st.sw[word] * mod,
              sw |-> dict_set(st.sw, word, st.sw[word] * 2)]
        ELSE st

\* 10_sentiment_basic.py lines 7-16: the multiplier of the earlier version,
\* which tests the negators with a second if instead of an elif.
basic_word_mod(words, pos, m, inv) ==
    LET mod0 == One
        mod1 == IF isupper(item(words, pos)) THEN mod0 + One \div 2 ELSE mod0
    IN  IF pos # 0
        THEN LET prev == norm(item(words, pos - 1))
                 mod2 == IF prev \in m THEN mod1 + One \div 4 ELSE mod1
             IN  IF prev \in inv THEN mod2 * (-1) ELSE mod2
        ELSE mod1

\* Lines 62-80: one iteration; st is [score, sw], the local score and the dict.
loop_body(words, pos, st, m, inv) ==
    LET mod == word_mod(words, pos, m, inv)
        word == norm(item(words, pos))
    IN  IF word \in DOMAIN st.sw
        THEN [score |-> st.score + st.sw[word] * mod, sw |-> st.sw]
        ELSE st

RECURSIVE score_loop(_, _, _, _, _)
score_loop(words, pos, st, m, inv) ==
    IF pos >= Len(words)
    THEN st
    ELSE score_loop(words, pos + 1, loop_body(words, pos, st, m, inv), m, inv)

\* Variant of analyse_total that skips stop words inside the loop instead of
\* removing them first, so that the predecessor is the previous original word.
RECURSIVE score_loop_skipping(_, _, _, _, _, _)
score_loop_skipping(words, pos, acc, st, m, inv) ==
    IF pos >= Len(words)
    THEN acc
    ELSE score_loop_skipping(words, pos + 1,
            IF norm(item(words, pos)) \in st THEN acc
            ELSE loop_body(words, pos, acc, m, inv),
            st, m, inv)

analyse_total_unfiltered(s, sw, st, m, inv) ==
    score_loop_skipping(split(s), 0, [score |-> 0, sw |-> sw], st, m, inv)

\* Lines 49-80: the running total at line 81 and the dict left behind.
analyse_total(s, sw, st, m, inv) ==
    score_loop(filter_stops(split(s), st), 0, [score |-> 0, sw |-> sw], m, inv)

\* Variant of sentence_mods whose second test is an elif.
sentence_mods_elif(s, score) ==
    IF item(s, -1) = "!" THEN (score * 3) \div 2
    ELSE IF isupper(s) THEN (score * 5) \div 4
    ELSE score

\* Lines 84-89, for a text whose last character exists.
sentence_mods(s, score) ==
    LET a == IF item(s, -1) = "!" THEN (score * 3) \div 2 ELSE score
    IN  IF isupper(s) THEN (a * 5) \div 4 ELSE a

\* The whole call: s[-1] on the empty string raises IndexError.
analyse(s, sw, st, m, inv) ==
    LET t == analyse_total(s, sw, st, m, inv)
    IN  IF ~in_range(s, -1)
        THEN [err |-> "IndexError", total |-> t.score, score |-> NoValue, sw |-> t.sw]
        ELSE [err |-> "none", total |-> t.score,
              score |-> sentence_mods(s, t.score), sw |-> t.sw]

\* ------------------------------------------ histogram (lines 120-126)
RECURSIVE seq_max(_)
seq_max(sc) ==
    IF Len(sc) = 1 THEN sc[1]
    ELSE LET r == seq_max(Tail(sc)) IN IF sc[1] > r THEN sc[1] ELSE r

RECURSIVE seq_min(_)
seq_min(sc) ==
    IF Len(sc) = 1 THEN sc[1]
    ELSE LET r == seq_min(Tail(sc)) IN IF sc[1] < r THEN sc[1] ELSE r

\* Lines 120-121: int(score_range / 20), a whole number.
increments_of(sc) == (seq_max(sc) - seq_min(sc)) \div (20 * One)

\* Lines 125-126 for one score: floor(score / increments), buckets[bucket] += 1.
bucket_step(st, score, increments) ==
    IF increments = 0
    THEN [err |-> "ZeroDivisionError", buckets |-> st.buckets]
    ELSE LET bucket == score \div (increments * One)
         IN  IF ~in_range(st.buckets, bucket)
             THEN [err |-> "IndexError", buckets |-> st.buckets]
             ELSE LET idx == IF bucket >= 0 THEN bucket + 1
                                            ELSE Len(st.buckets) + bucket + 1
                  IN  [err |-> "none",
                       buckets |-> [st.buckets EXCEPT ![idx] = @ + 1]]

RECURSIVE bucket_loop(_, _, _)
bucket_loop(st, sc, increments) ==
    IF sc = <<>> \/ st.err # "none"
    THEN st
    ELSE bucket_loop(bucket_step(st, Head(sc), increments), Tail(sc), increments)

\* Lines 120-126.
histogram(sc) ==
    bucket_loop([err |-> "none", buckets |-> [i \in 1..20 |-> 0]],
                sc, increments_of(sc))

\* ------------------------------------------------------------ the inputs
T_GOOD == <<"G","O","O","D">>
T_BADX == <<"B","A","D","!">>
RawTokens == {W_good, T_GOOD, T_BADX, W_not, W_isnt, W_really, W_the, W_very}

RECURSIVE join(_)
join(ts) ==
    IF ts = <<>> THEN <<>>
    ELSE IF Len(ts) = 1 THEN ts[1]
    ELSE ts[1] \o <<" ">> \o join(Tail(ts))

TextNotBuy == join(<<<<"I">>, W_did, W_not, W_buy, W_it>>)
TextBuy == join(<<<<"I">>, W_did, W_buy, W_it>>)

SpecialTexts ==
    { <<>>, <<" ">>, <<"!">>,
      W_good \o <<"!", " ">>,
      <<"\t">> \o T_GOOD \o <<" ", "\n">> \o W_isnt \o <<" ", " ">> \o T_BADX \o <<"\n">>,
      <<"U+0060">> \o W_good \o <<"U+0060", "\r">> \o T_BADX,
      W_not \o <<"U+000B">> \o W_good \o <<"\f">>,
      TextNotBuy, TextBuy }

TextInputs ==
    {join(ts) : ts \in UNION {[1..n -> RawTokens] : n \in 1..MaxTokens}}
        \cup SpecialTexts

\* stopwords.stops (line 2) as loaded: a set of common words ("the", "i",
\* "it"); the negator "not" and the intensifiers are not among them.
LoadedStops ==
    {W_the, W_i, W_it}

\* stopwords.stops (line 2) as an input of the scorer: the loaded list, and a
\* list that also holds the negator "not" and the intensifier "very".
StopChoices ==
    { LoadedStops,
      LoadedStops \cup {W_not, W_very} }

LexiconFiles ==
    { << SubjLine("weaksubj", W_good, "positive"),
         SubjLine("strongsubj", W_bad, "negative") >>,
      << SubjLine("strongsubj", W_good, "positive"),
         SubjLine("weaksubj", W_bad, "negative"),
         SubjLine("strongsubj", W_buy, "negative"),
         SubjLine("weaksubj", W_really, "positive"),
         SubjLine("weaksubj", W_not, "negative"),
         SubjLine("weaksubj", W_the, "positive") >> }

LexWords == {W_good, W_buy, W_very}
SubjTypes == {"strongsubj", "weaksubj"}
Polarities == {"positive", "negative"}
LexLines == {SubjLine(t, w, p) : t \in SubjTypes, w \in LexWords, p \in Polarities}
CustomWeights == {1, 3}

ScoreValues == {(-20) * One, 0, One \div 2, 10 * One, 20 * One, 40 * One}

NoOp == [op |-> "none", word |-> <<>>, weight |-> 0, warned |-> FALSE]

\* ----------------------------------------------------------- the actions
\* Lines 9-22, one iteration of the load loop.
LoadRecord(line) ==
    /\ phase = "load" /\ err = "none"
    /\ Len(records) < MaxRecords
    /\ sentiment_words' = load_line(sentiment_words, line)
    /\ records' = Append(records, line)
    /\ UNCHANGED <<stops, mods, inverters, phase, err, last_op, text, total,
                   scores, buckets>>

\* Line 10 on an empty line: the loop ends and the file is closed.
EndLoad ==
    /\ phase = "load" /\ err = "none"
    /\ phase' = "custom"
    /\ records' = <<>>
    /\ UNCHANGED <<sentiment_words, stops, mods, inverters, err, last_op, text,
                   total, scores, buckets>>

\* A call add_word(word, weight), lines 25-29.
AddWord(word, weight) ==
    /\ phase = "custom" /\ err = "none"
    /\ LET r == add_word(sentiment_words, word, weight)
       IN  /\ sentiment_words' = r.sw
           /\ err' = r.err
           /\ last_op' = [op |-> "add", word |-> word, weight |-> weight,
                          warned |-> r.warned]
    /\ UNCHANGED <<stops, mods, inverters, phase, records, text, total,
                   scores, buckets>>

\* A call remove_word(word), lines 31-35.
RemoveWord(word) ==
    /\ phase = "custom" /\ err = "none"
    /\ LET r == remove_word(sentiment_words, word)
       IN  /\ sentiment_words' = r.sw
           /\ err' = r.err
           /\ last_op' = [op |-> "remove", word |-> word, weight |-> 0,
                          warned |-> r.warned]
    /\ UNCHANGED <<stops, mods, inverters, phase, records, text, total,
                   scores, buckets>>

\* Lines 103-104: score = analyse(review["reviewText"]); scores.append(score).
Analyse ==
    /\ phase = "score" /\ err = "none"
    /\ Len(scores) < MaxCalls
    /\ LET r == analyse(text, sentiment_words, stops, mods, inverters)
       IN  /\ sentiment_words' = r.sw
           /\ total' = r.total
           /\ err' = r.err
           /\ scores' = IF r.err = "none" THEN Append(scores, r.score) ELSE scores
    /\ UNCHANGED <<stops, mods, inverters, phase, records, last_op, text, buckets>>

\* Lines 102-104 with the value analyse returned for the next review.
ScoreReview(v) ==
    /\ phase = "corpus" /\ err = "none"
    /\ Len(scores) < MaxScores
    /\ scores' = Append(scores, v)
    /\ UNCHANGED <<sentiment_words, stops, mods, inverters, phase, err, records,
                   last_op, text, total, buckets>>

\* Lines 120-126 once the corpus is read (it holds at least one review).
Histogram ==
    /\ phase = "corpus" /\ err = "none"
    /\ scores # <<>>
    /\ LET r == histogram(scores)
       IN  /\ buckets' = r.buckets
           /\ err' = r.err
    /\ phase' = "hist"
    /\ UNCHANGED <<sentiment_words, stops, mods, inverters, records, last_op,
                   text, total, scores>>

\* ---------------------------------------------------- the specifications
InitLex ==
    /\ sentiment_words = EmptyDict
    /\ stops \in StopChoices
    /\ mods = ModsList /\ inverters = InvertersList
    /\ phase = "load" /\ err = "none"
    /\ records = <<>> /\ last_op = NoOp
    /\ text = <<>> /\ total = NoValue
    /\ scores = <<>> /\ buckets = NoValue

NextLex ==
    \/ \E line \in LexLines : LoadRecord(line)
    \/ EndLoad
    \/ \E w \in LexWords, k \in CustomWeights : AddWord(w, k)
    \/ \E w \in LexWords : RemoveWord(w)

SpecLex == InitLex /\ [][NextLex]_vars

InitScore ==
    /\ \E f \in LexiconFiles : sentiment_words = customise(load_lines(EmptyDict, f))
    /\ stops \in StopChoices
    /\ mods = ModsList /\ inverters = InvertersList
    /\ phase = "score" /\ err = "none"
    /\ records = <<>> /\ last_op = NoOp
    /\ text \in TextInputs /\ total = NoValue
    /\ scores = <<>> /\ buckets = NoValue

NextScore == Analyse

SpecScore == InitScore /\ [][NextScore]_vars

InitHist ==
    /\ \E f \in LexiconFiles : sentiment_words = customise(load_lines(EmptyDict, f))
    /\ stops \in StopChoices
    /\ mods = ModsList /\ inverters = InvertersList
    /\ phase = "corpus" /\ err = "none"
    /\ records = <<>> /\ last_op = NoOp
    /\ text = <<>> /\ total = NoValue
    /\ scores = <<>> /\ buckets = NoValue

NextHist ==
    \/ \E v \in ScoreValues : ScoreReview(v)
    \/ Histogram

SpecHist == InitHist /\ [][NextHist]_vars

\* ------------------------------------------------------------ properties
LastScore == scores[Len(scores)]
\* analyse has been called: it returned or it raised.
Scored == phase = "score" /\ (scores # <<>> \/ err # "none")
Returned == phase = "score" /\ scores # <<>>
Kept == filter_stops(split(text), stops)

\* C1 --------------------------------------------------------------------
\* The multiplier the claim gives for the word at (1-based) index i of the
\* filtered list.
C1_multiplier(words, i) ==
    LET base == IF isupper(words[i]) THEN (3 * One) \div 2 ELSE One
    IN  IF i > 1 /\ norm(words[i - 1]) \in mods THEN base + One \div 4
        ELSE IF i > 1 /\ norm(words[i - 1]) \in inverters THEN (-1) * base
        ELSE base

RECURSIVE C1_sum(_, _)
C1_sum(words, i) ==
    IF i = 0 THEN 0
    ELSE C1_sum(words, i - 1)
         + (IF norm(words[i]) \in DOMAIN sentiment_words
            THEN sentiment_words[norm(words[i])] * C1_multiplier(words, i)
            ELSE 0)

\* C1: the running total of analyse before the sentence-level multipliers is
\* the sum, over the filtered words found in the lexicon, of weight times the
\* multiplier: 1.5 for an uppercase raw word else 1, then for i > 0 plus 0.25
\* after an intensifier, otherwise negated after a negator.  The earlier
\* scoring loop (10_sentiment_basic.py) gives every word the same multiplier.
C1_TotalIsWeightedSum ==
    Scored =>
        /\ total = C1_sum(Kept, Len(Kept))
        /\ \A i \in 1..Len(Kept) :
              basic_word_mod(Kept, i - 1, mods, inverters) = C1_multiplier(Kept, i)

\* An uppercase lexicon word after a negator and a lexicon word after an
\* intensifier have been scored in one call.
C1_Witness ==
    /\ Scored
    /\ \E i \in 2..Len(Kept) :
          /\ norm(Kept[i]) \in DOMAIN sentiment_words
          /\ isupper(Kept[i])
          /\ norm(Kept[i - 1]) \in inverters
    /\ \E i \in 2..Len(Kept) :
          /\ norm(Kept[i]) \in DOMAIN sentiment_words
          /\ norm(Kept[i - 1]) \in mods

\* C2 --------------------------------------------------------------------
\* Index of the nearest word before j in the original word list that is not
\* a stop word, or 0.
RECURSIVE C2_prev_kept(_, _)
C2_prev_kept(raw, j) ==
    IF j <= 1 THEN 0
    ELSE IF norm(raw[j - 1]) \notin stops THEN j - 1
    ELSE C2_prev_kept(raw, j - 1)

C2_contribution(raw, j) ==
    LET w == norm(raw[j])
        k == C2_prev_kept(raw, j)
        base == IF isupper(raw[j]) THEN (3 * One) \div 2 ELSE One
    IN  IF w \in stops \/ w \notin DOMAIN sentiment_words THEN 0
        ELSE sentiment_words[w] *
             (IF k > 0 /\ norm(raw[k]) \in mods THEN base + One \div 4
              ELSE IF k > 0 /\ norm(raw[k]) \in inverters THEN (-1) * base
              ELSE base)

RECURSIVE C2_sum(_, _)
C2_sum(raw, j) ==
    IF j = 0 THEN 0 ELSE C2_sum(raw, j - 1) + C2_contribution(raw, j)

\* C2: the word consulted for intensification or negation of a word is the
\* nearest earlier word of the original text that survived stop-word
\* filtering; stop words in between are skipped and a stop word is never
\* consulted.
C2_PredecessorIsPreviousSurvivor ==
    Scored => total = C2_sum(split(text), Len(split(text)))

\* A surviving negator, then a stop word, then a lexicon word.
C2_Witness ==
    /\ Scored
    /\ LET raw == split(text)
       IN  \E j \in 3..Len(raw) :
              /\ norm(raw[j]) \in DOMAIN sentiment_words \ stops
              /\ norm(raw[j - 1]) \in stops
              /\ norm(raw[j - 2]) \in inverters \ stops
              /\ total # 0

\* C3 --------------------------------------------------------------------
\* C3: for a non-empty text the returned score is the running total times
\* 1.5 when the text ends in "!" and times 1.25 when the text is uppercase,
\* each applied once (both sides scaled by 8).
C3_SentenceMultipliers ==
    Returned =>
        LastScore * 8 = total * (IF text[Len(text)] = "!" THEN 3 ELSE 2)
                              * (IF isupper(text) THEN 5 ELSE 4)

\* An uppercase text ending in "!" with a non-zero total has been scored.
C3_Witness ==
    /\ Returned
    /\ text[Len(text)] = "!"
    /\ isupper(text)
    /\ total # 0

\* C4 --------------------------------------------------------------------
\* C4: scoring the empty text returns 0 and raises no error.
C4_EmptyTextScoresZero ==
    (Scored /\ text = <<>>) =>
        (err = "none" /\ scores # <<>> /\ LastScore = 0)

\* C5 --------------------------------------------------------------------
C5_word(line) == line[3][2]
C5_weight(line) ==
    (IF line[6][2] = "positive" THEN 1 ELSE -1)
        * (IF line[1][2] = "strongsubj" THEN 2 ELSE 1)
C5_last(w) ==
    CHOOSE i \in 1..Len(records) :
        /\ C5_word(records[i]) = w
        /\ \A j \in (i + 1)..Len(records) : C5_word(records[j]) # w

\* C5: while the lexicon is being built, every word of the lines read so far
\* has the weight sign(polarity) * (2 if strong else 1) of the last line
\* read for it, and no other word is stored.
C5_LastRecordWins ==
    phase = "load" =>
        /\ DOMAIN sentiment_words = {C5_word(records[i]) : i \in 1..Len(records)}
        /\ \A w \in DOMAIN sentiment_words :
              /\ sentiment_words[w] = C5_weight(records[C5_last(w)])
              /\ sentiment_words[w] \in {-2, -1, 1, 2}

\* Two lines for one word with different weights have been read.
C5_Witness ==
    /\ phase = "load"
    /\ \E i, j \in 1..Len(records) :
          /\ i < j
          /\ C5_word(records[i]) = C5_word(records[j])
          /\ C5_weight(records[i]) # C5_weight(records[j])

\* C6 --------------------------------------------------------------------
\* C6: add_word on a word already present and remove_word on an absent word
\* leave the lexicon unchanged, warn, and leave the script running.
C6_FailedCallsLeaveLexicon ==
    [][ (/\ phase = "custom"
         /\ \/ last_op'.op = "add" /\ last_op'.word \in DOMAIN sentiment_words
            \/ last_op'.op = "remove" /\ last_op'.word \notin DOMAIN sentiment_words)
        => (/\ sentiment_words' = sentiment_words
            /\ last_op'.warned
            /\ err' = "none" /\ phase' = "custom") ]_vars

\* add_word was called with a weight other than the one stored and warned.
C6_Witness ==
    /\ phase = "custom"
    /\ last_op.op = "add" /\ last_op.warned
    /\ last_op.word \in DOMAIN sentiment_words
    /\ sentiment_words[last_op.word] # last_op.weight

\* C7 --------------------------------------------------------------------
\* The weight of w as a one-element sequence, or the empty sequence if absent.
C7_lookup(w) == IF w \in DOMAIN sentiment_words THEN <<sentiment_words[w]>> ELSE <<>>

\* C7 as claimed: right after add_word(w, k) a lookup of w returns k, and
\* right after remove_word(w) a lookup of w returns absent.
C7_RoundTrip ==
    phase = "custom" =>
        /\ last_op.op = "add" => C7_lookup(last_op.word) = <<last_op.weight>>
        /\ last_op.op = "remove" => C7_lookup(last_op.word) = <<>>

\* C7 as amended: right after add_word(w, k) on a lexicon without w a lookup
\* of w returns k; on a lexicon with w it returns the weight w had before;
\* right after remove_word(w) a lookup of w returns absent.
C7_RoundTripWhenAbsent ==
    [][ phase = "custom" =>
        /\ (last_op'.op = "add" /\ last_op'.word \notin DOMAIN sentiment_words)
              => (/\ last_op'.word \in DOMAIN sentiment_words'
                  /\ sentiment_words'[last_op'.word] = last_op'.weight)
        /\ (last_op'.op = "add" /\ last_op'.word \in DOMAIN sentiment_words)
              => (/\ last_op'.word \in DOMAIN sentiment_words'
                  /\ sentiment_words'[last_op'.word] = sentiment_words[last_op'.word])
        /\ last_op'.op = "remove"
              => last_op'.word \notin DOMAIN sentiment_words' ]_vars

\* A word was added with a new weight, and a stored word was removed.
C7_Witness ==
    /\ phase = "custom"
    /\ last_op.op = "add" /\ ~last_op.warned
    /\ C7_lookup(last_op.word) = <<last_op.weight>>
    /\ \E w \in DOMAIN sentiment_words : w # last_op.word

\* C8 --------------------------------------------------------------------
C8_score_of_buy ==
    analyse(TextBuy, sentiment_words, stops, mods, inverters).score

C9_ScoringIsPure ==
    [][ phase = "score" =>
        /\ sentiment_words' = sentiment_words
        /\ stops' = stops /\ mods' = mods /\ inverters' = inverters
        /\ \A i, j \in 1..Len(scores') : scores'[i] = scores'[j] ]_vars

\* The same text was scored twice with a non-zero result.
C9_Witness ==
    /\ phase = "score"
    /\ Len(scores) >= 2
    /\ scores[1] # 0

\* C10 -------------------------------------------------------------------
RECURSIVE C10_sum(_)
C10_sum(b) == IF b = <<>> THEN 0 ELSE Head(b) + C10_sum(Tail(b))

\* C10: for a non-empty list of scores with bucket width >= 1 the histogram
\* step ends without an out-of-range bucket index and the 20 counts sum to
\* the number of scores.
C10_HistogramCompletes ==
    (phase = "hist" /\ increments_of(scores) >= 1) =>
        (err = "none" /\ Len(buckets) = 20 /\ C10_sum(buckets) = Len(scores))

====
